---- MODULE Spec2Model ----
(***************************************************************************)
(* relnote-pro: the changelog document engine of src/src/changelog.ts      *)
(* (the target-branch-aware implementation, lines 335-687), the classifier *)
(* of src/src/categorize.ts and the bump advisor of src/src/semver.ts.     *)
(*                                                                         *)
(* Texts are TLA+ strings, handled character by character as the           *)
(* TypeScript code handles them.  Positions are 1-based here, 0-based in   *)
(* the source; "not found" is 0 here and -1 in the source.  The module is  *)
(* ASCII: the character "~" stands for the en dash (U+2013) that the       *)
(* source writes between a version and its date.                           *)
(***************************************************************************)
EXTENDS Integers, Sequences, FiniteSets, TLC

VARIABLES
  exists,    \* the changelog file is present on the target branch
  content,   \* its text (meaningful when exists)
  sha,       \* its optimistic-concurrency token: changes with every write
  puts,      \* number of putFile calls issued so far
  released,  \* bodies sent to the release annotation (updateRelease), in order
  last,      \* the invocation that ran last: its inputs, what it read and did
  nops,      \* number of invocations so far
  inv,       \* the invocations that run side by side: where each one stands
  cls        \* the classification of a change: its inputs, the result, the bump

vars == <<exists, content, sha, puts, released, last, nops, inv, cls>>

----------------------------------------------------------------------------
(* Bounds of the model *)

MaxOps == 3          \* invocations per behaviour
MaxNormLines == 3    \* lines of an input text of the normalizer specification
FirstPr == 55        \* number of the first pull request merged; later ones count up

----------------------------------------------------------------------------
(* JavaScript string primitives *)

Ch(s, i) == IF i >= 1 /\ i <= Len(s) THEN SubSeq(s, i, i) ELSE ""

\* s.slice(i-1, j) for 1 <= i
Sub(s, i, j) ==
  LET hi == IF j > Len(s) THEN Len(s) ELSE j
  IN  IF i > hi THEN "" ELSE SubSeq(s, i, hi)

\* the characters of the regular-expression class \s that texts here contain
IsWs(c) == c \in {" ", "\t", "\n", "\r"}

\* a LineTerminator: what ^ and $ of a multiline regular expression see
IsLineTerm(c) == c \in {"\n", "\r"}

\* the regular-expression class \w
WordChars == "abcdefghijklmnopqrstuvwxyzABCDEFGHIJKLMNOPQRSTUVWXYZ0123456789_"
WordSet == {SubSeq(WordChars, i, i) : i \in 1..Len(WordChars)}
IsWord(c) == c \in WordSet

UpperAlpha == "ABCDEFGHIJKLMNOPQRSTUVWXYZ"
LowerAlpha == "abcdefghijklmnopqrstuvwxyz"
UpperSet == {SubSeq(UpperAlpha, i, i) : i \in 1..26}
LowerOf ==
  [c \in UpperSet |->
     LET i == CHOOSE k \in 1..26 : SubSeq(UpperAlpha, k, k) = c
     IN  SubSeq(LowerAlpha, i, i)]

LowerCh(c) == IF c \in UpperSet THEN LowerOf[c] ELSE c

RECURSIVE LowerFrom(_, _)
LowerFrom(s, i) ==
  IF i > Len(s) THEN "" ELSE LowerCh(SubSeq(s, i, i)) \o LowerFrom(s, i + 1)
toLowerCase(s) == LowerFrom(s, 1)

\* first position >= i that holds no white space (Len(t)+1 when there is none)
RECURSIVE SkipWs(_, _)
SkipWs(t, i) == IF i <= Len(t) /\ IsWs(Ch(t, i)) THEN SkipWs(t, i + 1) ELSE i

\* first position >= i that holds no "\n"
RECURSIVE SkipNl(_, _)
SkipNl(t, i) == IF i <= Len(t) /\ Ch(t, i) = "\n" THEN SkipNl(t, i + 1) ELSE i

\* first position >= i that holds "\n" (Len(t)+1 when there is none)
RECURSIVE FindNl(_, _)
FindNl(t, i) == IF i <= Len(t) /\ Ch(t, i) # "\n" THEN FindNl(t, i + 1) ELSE i

\* last position <= i that holds no white space (0 when there is none)
RECURSIVE LastNonWs(_, _)
LastNonWs(t, i) == IF i >= 1 /\ IsWs(Ch(t, i)) THEN LastNonWs(t, i - 1) ELSE i

trimEnd(s) == Sub(s, 1, LastNonWs(s, Len(s)))
trimStart(s) == Sub(s, SkipWs(s, 1), Len(s))
trim(s) == trimEnd(trimStart(s))

\* t.indexOf(pat) + 1
indexOf(t, pat) ==
  LET hits == {i \in 1..Len(t) : Sub(t, i, i + Len(pat) - 1) = pat}
  IN  IF hits = {} THEN 0 ELSE CHOOSE i \in hits : \A j \in hits : i <= j

\* case-insensitive match of the lower-case literal lit at position i
MatchCI(t, i, lit) ==
  /\ i >= 1
  /\ i + Len(lit) - 1 <= Len(t)
  /\ toLowerCase(SubSeq(t, i, i + Len(lit) - 1)) = lit

\* positions where ^ of a multiline regular expression matches before a character
LineStarts(t) == {i \in 1..Len(t) : i = 1 \/ IsLineTerm(Ch(t, i - 1))}

\* $ of a multiline regular expression matches at some position of c..d
EolIn(t, c, d) == \E p \in c..d : p = Len(t) + 1 \/ IsLineTerm(Ch(t, p))

\* text.split(/\r?\n/)
RECURSIVE SplitFrom(_, _, _)
SplitFrom(t, from, i) ==
  IF i > Len(t) THEN <<Sub(t, from, Len(t))>>
  ELSE IF Ch(t, i) = "\n"
       THEN <<Sub(t, from, IF i > from /\ Ch(t, i - 1) = "\r" THEN i - 2 ELSE i - 1)>>
            \o SplitFrom(t, i + 1, i + 1)
       ELSE SplitFrom(t, from, FindNl(t, i))
splitLines(t) == SplitFrom(t, 1, 1)

\* text.split("\n")
RECURSIVE SplitNlFrom(_, _)
SplitNlFrom(t, from) ==
  LET e == FindNl(t, from)
  IN  IF e > Len(t) THEN <<Sub(t, from, Len(t))>>
      ELSE <<Sub(t, from, e - 1)>> \o SplitNlFrom(t, e + 1)
splitNl(t) == SplitNlFrom(t, 1)

\* lines.join(sep)
RECURSIVE join(_, _)
join(ls, sep) ==
  IF ls = <<>> THEN ""
  ELSE IF Len(ls) = 1 THEN ls[1]
  ELSE ls[1] \o sep \o join(Tail(ls), sep)

\* lines.slice(a-1, b)
sliceSeq(ls, a, b) == IF a > b THEN <<>> ELSE SubSeq(ls, a, b)

\* s.replace(/\n{3,}/g, "\n\n")
RECURSIVE CollapseFrom(_, _)
CollapseFrom(t, i) ==
  IF i > Len(t) THEN ""
  ELSE IF Ch(t, i) = "\n"
       THEN LET j == SkipNl(t, i)
            IN  (IF j - i >= 3 THEN "\n\n" ELSE Sub(t, i, j - 1)) \o CollapseFrom(t, j)
       ELSE LET j == FindNl(t, i)
            IN  Sub(t, i, j - 1) \o CollapseFrom(t, j)
collapseBlankLines(t) == CollapseFrom(t, 1)

----------------------------------------------------------------------------
(* Document grammar: changelog.ts 340-352 *)

EnDash == "~"

HEADER ==
  "# Changelog\nAll notable changes to this project will be documented in this file.\n\n## [Unreleased]\n\n"

\* a match of /^##\s*\[?\s*unreleased\s*\]?\s*$/im that starts at position i
UnreleasedAt(t, i) ==
  /\ Sub(t, i, i + 1) = "##"
  /\ LET a == SkipWs(t, i + 2)
         b == IF Ch(t, a) = "[" THEN SkipWs(t, a + 1) ELSE a
     IN  /\ MatchCI(t, b, "unreleased")
         /\ LET c == b + 10
                d == SkipWs(t, c)
            IN  \/ EolIn(t, c, d)
                \/ /\ Ch(t, d) = "]"
                   /\ EolIn(t, d + 1, SkipWs(t, d + 1))

\* the expression without its optional brackets, /^##\s*unreleased\s*$/im
UnbracketedOnlyRE(t) ==
  \E i \in LineStarts(t) :
    /\ Sub(t, i, i + 1) = "##"
    /\ LET b == SkipWs(t, i + 2)
       IN  MatchCI(t, b, "unreleased") /\ EolIn(t, b + 10, SkipWs(t, b + 10))

\* UNRELEASED_HEADER_RE.test(t)
UNRELEASED_HEADER_RE(t) == \E i \in LineStarts(t) : UnreleasedAt(t, i)

\* /^\#\s*Changelog/im.test(t)
ChangelogTitleRE(t) ==
  \E i \in LineStarts(t) :
    Ch(t, i) = "#" /\ MatchCI(t, SkipWs(t, i + 1), "changelog")

\* no line ends the staging section: it runs to the end of the document
NoSectionRE(line) == FALSE

\* the expression without its white space, /^##/: it also matches "### "
AnyHashesRE(line) == Sub(line, 1, 2) = "##"

\* /^##\s+/.test(line)
SectionRE(line) == Sub(line, 1, 2) = "##" /\ IsWs(Ch(line, 3))

----------------------------------------------------------------------------
(* Normalizer and staging-section capture: changelog.ts 431-467 *)

\* where a loop over the indices in order stops: the least of hits, or none
FirstIndex(hits, none) ==
  IF hits = {} THEN none ELSE CHOOSE i \in hits : \A j \in hits : i <= j

captureUnreleased(text) ==
  LET lines == splitLines(text)
      n == Len(lines)
      s == FirstIndex({i \in 1..n : UNRELEASED_HEADER_RE(lines[i])}, n + 1)
  IN  IF s > n
      THEN [start |-> 0, end |-> 0, header |-> "", body |-> "", lines |-> lines]
      ELSE LET e == FirstIndex({i \in (s + 1)..n : SectionRE(lines[i])}, n + 1)
           IN  [start |-> s, end |-> e, header |-> lines[s],
                body |-> join(sliceSeq(lines, s + 1, e - 1), "\n"),
                lines |-> lines]

ensureHeaderAndUnreleased(text) ==
  LET t1 == IF ~ChangelogTitleRE(text) THEN HEADER \o text ELSE text
  IN  IF ~UNRELEASED_HEADER_RE(t1)
      THEN LET idx == indexOf(t1, "\n## ")
           IN  IF idx > 0
               THEN Sub(t1, 1, idx - 1) \o "\n## [Unreleased]\n\n" \o Sub(t1, idx, Len(t1))
               ELSE t1 \o "\n## [Unreleased]\n\n"
      ELSE t1

----------------------------------------------------------------------------
(* Entry formatting and the section editor: changelog.ts 469-539 *)

\* first position >= i that holds no word character
RECURSIVE SkipWord(_, _)
SkipWord(t, i) == IF i <= Len(t) /\ IsWord(Ch(t, i)) THEN SkipWord(t, i + 1) ELSE i

\* /^(\w+)(?:\([^)]+\))?!?:\s*(.+)$/.exec(title.trim()): the subject, group 2,
\* or "" when the title does not match
ConventionalSubject(title) ==
  LET t == trim(title)
      w == SkipWord(t, 1)
      close == indexOf(Sub(t, w + 1, Len(t)), ")")
      s == IF Ch(t, w) = "(" /\ close > 1 THEN w + close + 1 ELSE w
      b == IF Ch(t, s) = "!" THEN s + 1 ELSE s
      subject == Sub(t, SkipWs(t, b + 1), Len(t))
  IN  IF /\ w > 1
         /\ Ch(t, b) = ":"
         /\ subject # ""
         /\ \A i \in 1..Len(subject) : ~IsLineTerm(Ch(subject, i))
      THEN subject
      ELSE ""

\* the trimmed title, whatever its form
keepTitle(title) == trim(title)

normalizeTitleForBullet(title) ==
  LET m == ConventionalSubject(title)
  IN  IF m # "" THEN m ELSE trim(title)

\* a missing scope is the empty string
formatBullet(title, prNumber, scope) ==
  LET t == normalizeTitleForBullet(title)
      scopePrefix == IF scope # "" THEN "[" \o scope \o "] " ELSE ""
  IN  "- " \o scopePrefix \o t \o " (#" \o ToString(prNumber) \o ")"

catHeader(category) == "### " \o category

\* a splice at the end of the category's block: entries oldest first
insertPositionAtBlockEnd(lines, catStart) ==
  FirstIndex({i \in (catStart + 1)..Len(lines) : Sub(trim(lines[i]), 1, 4) = "### "},
             Len(lines) + 1)

\* the index the bullet is spliced at (515-516): after the category header at
\* catStart and the blank lines that follow it
insertPosition(lines, catStart) ==
  FirstIndex({i \in (catStart + 1)..Len(lines) : trim(lines[i]) # ""}, Len(lines) + 1)

\* a new block above the lines the body has
insertBlockFirst(unreleasedBody, category, bullet) ==
  catHeader(category) \o "\n" \o bullet \o "\n\n" \o unreleasedBody

\* a new block for every insert, whether or not the category has one
insertAsNewBlock(unreleasedBody, category, bullet) ==
  LET trimmed == trimEnd(unreleasedBody)
      suffix == Sub(unreleasedBody, Len(trimmed) + 1, Len(unreleasedBody))
  IN  (IF trimmed # "" THEN trimmed \o "\n\n" ELSE "")
        \o catHeader(category) \o "\n" \o bullet \o "\n" \o suffix

insertIntoUnreleasedCategory(unreleasedBody, category, bullet) ==
  LET categoryHeader == catHeader(category)
      lines == splitNl(unreleasedBody)
      n == Len(lines)
      key == toLowerCase(trim(categoryHeader))
      catStart == FirstIndex({i \in 1..n : toLowerCase(trim(lines[i])) = key}, n + 1)
  IN  IF catStart > n
      THEN LET trimmed == trimEnd(unreleasedBody)
               suffix == Sub(unreleasedBody, Len(trimmed) + 1, Len(unreleasedBody))
           IN  (IF trimmed # "" THEN trimmed \o "\n\n" ELSE "")
                 \o categoryHeader \o "\n" \o bullet \o "\n" \o suffix
      ELSE LET insertAt == insertPosition(lines, catStart)
               spliced == sliceSeq(lines, 1, insertAt - 1) \o <<bullet>>
                            \o sliceSeq(lines, insertAt, n)
               padded == IF spliced[Len(spliced)] # "" THEN Append(spliced, "") ELSE spliced
           IN  join(padded, "\n")

\* the updater is the one addUnreleasedEntry passes (605-610): the insertion
\* of bullet into category
replaceUnreleasedSection(fullText, category, bullet) ==
  LET t == ensureHeaderAndUnreleased(fullText)
      cap == captureUnreleased(t)
  IN  IF cap.start = 0 THEN t
      ELSE LET updatedBody == insertIntoUnreleasedCategory(cap.body, category, bullet)
               before == join(sliceSeq(cap.lines, 1, cap.start), "\n")
               after == join(sliceSeq(cap.lines, cap.end, Len(cap.lines)), "\n")
           IN  collapseBlankLines(join(<<before, trimEnd(updatedBody), "", after>>, "\n"))

\* the document addUnreleasedEntry writes for the text it read (602-611)
WithEntry(base, entry) ==
  replaceUnreleasedSection(ensureHeaderAndUnreleased(base), entry.category,
                           formatBullet(entry.title, entry.prNumber, entry.scope))

----------------------------------------------------------------------------
(* Release cutover, the text it builds: changelog.ts 638-663 *)

\* String(n).padStart(2, "0")
padStart2(n) == IF n < 10 THEN "0" \o ToString(n) ELSE ToString(n)

dateStr(now) == ToString(now.y) \o "-" \o padStart2(now.m) \o "-" \o padStart2(now.d)

\* tag.replace(/^v/i, "") || "0.0.0"
versionOf(tag) ==
  LET stripped == IF Ch(tag, 1) \in {"v", "V"} THEN Sub(tag, 2, Len(tag)) ELSE tag
  IN  IF stripped # "" THEN stripped ELSE "0.0.0"

versionHeader(tag, now) ==
  "## [" \o versionOf(tag) \o "] " \o EnDash \o " " \o dateStr(now) \o "\n"

\* the body taken without trimming it
extractUntrimmed(text) == captureUnreleased(text).body

\* the staging body releaseUnreleased extracts (650-651)
extractUnreleased(text) == trim(captureUnreleased(text).body)

\* the new section put at the end of the document
assembleAppended(before, section, after) ==
  collapseBlankLines(join(<<before, "", after, section>>, "\n"))

\* the text put together around the new version section (660-662)
assemble(before, section, after) ==
  collapseBlankLines(join(<<before, "", section, after>>, "\n"))

\* a cutover that leaves the staged lines where they are
WithReleaseKeepingStaged(text, tag, now) ==
  LET cap == captureUnreleased(text)
      before == join(sliceSeq(cap.lines, 1, cap.end - 1), "\n")
      after == join(sliceSeq(cap.lines, cap.end, Len(cap.lines)), "\n")
  IN  assemble(before, versionHeader(tag, now) \o trimEnd(extractUnreleased(text)) \o "\n",
               after)

\* the document releaseUnreleased writes when the extracted body is not empty
WithRelease(text, tag, now) ==
  LET cap == captureUnreleased(text)
      unreleasedBody == extractUnreleased(text)
      before == join(sliceSeq(cap.lines, 1, cap.start), "\n")
      after == join(sliceSeq(cap.lines, cap.end, Len(cap.lines)), "\n")
      cleanBody == trimEnd(unreleasedBody)
  IN  assemble(before, versionHeader(tag, now) \o cleanBody \o "\n", after)

----------------------------------------------------------------------------
(* Persistence adapter: changelog.ts 379-429 *)

\* getFile: the file and its token, or null
getFile == IF exists THEN [found |-> TRUE, sha |-> sha, content |-> content]
           ELSE [found |-> FALSE, sha |-> 0, content |-> ""]

\* a store that takes every write, whatever token it carries
putFileUnchecked(text, token) ==
  /\ exists' = TRUE
  /\ content' = text
  /\ sha' = sha + 1
  /\ puts' = puts + 1

\* putFile(content, sha?): the store takes the write when the token given is
\* the file's current one (none for a file that does not exist yet)
putFile(text, token) ==
  /\ token = (IF exists THEN sha ELSE 0)
  /\ exists' = TRUE
  /\ content' = text
  /\ sha' = sha + 1
  /\ puts' = puts + 1

NoFile == [found |-> FALSE, sha |-> 0, content |-> ""]
NoEntry == [prNumber |-> 0, title |-> "", category |-> "", scope |-> ""]
NoRelease == [tag |-> "", now |-> [y |-> 0, m |-> 0, d |-> 0], releaseId |-> 0]

\* what an invocation was given (entry, release), what it read (found, pre),
\* whether it wrote the document, and the body it extracted
Record(op, file, entry, release, wrote, extracted) ==
  [op |-> op, found |-> file.found, pre |-> file.content, entry |-> entry,
   release |-> release, wrote |-> wrote, extracted |-> extracted]

\* no change is being classified: event is the kind of event a run was
\* started for, emitted the values given to setOutput("bump") in order,
\* bumps and combined the argument and result of combineBumps, line the
\* result of formatBullet for title, prNumber and res.scope
NoChange ==
  [pc |-> "none", event |-> "", title |-> "", labels |-> <<>>,
   cfg |-> [categories |-> <<>>, breakingLabels |-> <<>>],
   res |-> [category |-> "", breaking |-> FALSE, scope |-> ""], bump |-> "",
   emitted |-> <<>>, bumps |-> <<>>, combined |-> "",
   prNumber |-> 0, line |-> ""]

\* two workflow runs may be under way at once, one per event delivered
Racers == {1, 2}

\* an invocation that has not begun: pc is where it stands (idle, read: it
\* holds the file it read and the text to write, wrote: the document is
\* written and the release annotation is not yet, done, failed)
Idle ==
  [pc |-> "idle", op |-> "", file |-> NoFile, entry |-> NoEntry, release |-> NoRelease,
   next |-> "", extracted |-> "", wrote |-> FALSE, mirrored |-> FALSE, error |-> ""]

----------------------------------------------------------------------------
(* ensureChangelog: changelog.ts 543-587 *)

ensureChangelog ==
  /\ nops < MaxOps
  /\ LET existing == getFile
     IN  IF ~existing.found
         THEN /\ putFile(HEADER, 0)
              /\ last' = Record("ensure", existing, NoEntry, NoRelease, TRUE, "")
         ELSE LET ensured == ensureHeaderAndUnreleased(existing.content)
              IN  IF ensured # existing.content
                  THEN /\ putFile(ensured, existing.sha)
                       /\ last' = Record("ensure", existing, NoEntry, NoRelease, TRUE, "")
                  ELSE /\ UNCHANGED <<exists, content, sha, puts>>
                       /\ last' = Record("ensure", existing, NoEntry, NoRelease, FALSE, "")
  /\ nops' = nops + 1
  /\ UNCHANGED <<released, inv, cls>>

----------------------------------------------------------------------------
(* addUnreleasedEntry: changelog.ts 589-623 *)

addUnreleasedEntry(e) ==
  /\ nops < MaxOps
  /\ LET file == getFile
         entry == [e EXCEPT !.prNumber = FirstPr + nops]
         base == IF file.found THEN file.content ELSE HEADER
         next == WithEntry(base, entry)
     IN  /\ putFile(next, IF file.found THEN file.sha ELSE 0)
         /\ last' = Record("add", file, entry, NoRelease, TRUE, "")
  /\ nops' = nops + 1
  /\ UNCHANGED <<released, inv, cls>>

----------------------------------------------------------------------------
(* releaseUnreleased: changelog.ts 625-686 *)

releaseUnreleased(r) ==
  /\ nops < MaxOps
  /\ LET file == getFile
         unreleasedBody == extractUnreleased(file.content)
     IN  IF ~file.found \/ unreleasedBody = ""
         THEN /\ UNCHANGED <<exists, content, sha, puts, released>>
              /\ last' = Record("release", file, NoEntry, r, FALSE, "")
         ELSE /\ putFile(WithRelease(file.content, r.tag, r.now), file.sha)
              /\ released' = IF r.releaseId # 0
                             THEN Append(released, unreleasedBody \o "\n")
                             ELSE released
              /\ last' = Record("release", file, NoEntry, r, TRUE, unreleasedBody)
  /\ nops' = nops + 1
  /\ UNCHANGED <<inv, cls>>

----------------------------------------------------------------------------
(* Inputs: the events delivered and the documents found on the branch *)

EntryInputs ==
  { [prNumber |-> 0, title |-> "fix: clamp invalid question number",
     category |-> "Fixes", scope |-> ""],
    [prNumber |-> 0, title |-> "feat(api)!: add export", category |-> "Features",
     scope |-> "api"],
    [prNumber |-> 0, title |-> "Update readme", category |-> "fixes", scope |-> ""] }

ReleaseInputs ==
  { [tag |-> "v0.1.0", now |-> [y |-> 2024, m |-> 1, d |-> 1], releaseId |-> 101],
    [tag |-> "1.2.0", now |-> [y |-> 2024, m |-> 11, d |-> 23], releaseId |-> 102],
    [tag |-> "V2.0.0", now |-> [y |-> 2025, m |-> 3, d |-> 9], releaseId |-> 0] }

Title == "# Changelog\nAll notable changes to this project will be documented in this file.\n\n"
OldVersion == "## [1.0.0] ~ 2023-05-01\n### Features\n- b (#2)\n"

InitDocs ==
  { \* the minimal document, and the empty file
    HEADER,
    "",
    \* the layout of the README's example
    "# Changelog\n\nAll notable changes to this project will be documented in this file.\n\n## [Unreleased]\n\n### Features\n\n- Add user export endpoint (#23)\n\n### Fixes\n\n- Clamp invalid question number (#55)\n",
    \* staged entries above an older version section that holds two blank lines
    Title \o "## [Unreleased]\n### Fixes\n- a (#1)\n\n## [1.0.0] ~ 2023-05-01\n### Features\n- b (#2)\n\n\n- c (#3)\n",
    \* the unbracketed spelling, the staging section last, no final newline
    "# Changelog\n## unreleased\n### fixes\n- a (#1)",
    \* no title header
    "## [Unreleased]\n### Fixes\n- a (#1)\n",
    \* no staging section
    Title \o OldVersion,
    \* a staging body of white space only
    Title \o "## [Unreleased]\n \n\n" \o OldVersion,
    \* blank lines after a category header and between category blocks
    Title \o "## [Unreleased]\n### Fixes\n\n- a (#1)\n\n\n### Docs\n- d (#4)\n\n" \o OldVersion }

Init ==
  /\ \/ exists = FALSE /\ content = "" /\ sha = 0
     \/ exists = TRUE /\ content \in InitDocs /\ sha = 1
  /\ puts = 0
  /\ released = <<>>
  /\ last = Record("init", NoFile, NoEntry, NoRelease, FALSE, "")
  /\ nops = 0
  /\ inv = [p \in Racers |-> Idle]
  /\ cls = NoChange

Next ==
  \/ \E e \in EntryInputs : addUnreleasedEntry(e)
  \/ \E r \in ReleaseInputs : releaseUnreleased(r)

Spec == Init /\ [][Next]_vars

\* the same events, the file holding the minimal document
InitMinimal ==
  /\ exists = TRUE /\ content = HEADER /\ sha = 1
  /\ puts = 0
  /\ released = <<>>
  /\ last = Record("init", NoFile, NoEntry, NoRelease, FALSE, "")
  /\ nops = 0
  /\ inv = [p \in Racers |-> Idle]
  /\ cls = NoChange

SpecMinimal == InitMinimal /\ [][Next]_vars

\* the same events on a document that ensureChangelog has normalized first
NextNormalized ==
  \/ nops = 0 /\ ensureChangelog
  \/ nops > 0 /\ Next

SpecNormalized == Init /\ [][NextNormalized]_vars

----------------------------------------------------------------------------
(* Specification of the normalizer: any text may be the file's content *)

NormLines ==
  {"# Changelog", "## [Unreleased]", "## unreleased", "## [1.0.0] ~ 2024-01-01",
   "- a (#1)", ""}

RECURSIVE LineSeqs(_)
LineSeqs(n) ==
  IF n = 0 THEN {<<>>}
  ELSE LET shorter == LineSeqs(n - 1)
       IN  shorter \cup {Append(s, l) : s \in {x \in shorter : Len(x) = n - 1}, l \in NormLines}

NormInputs == {join(s, "\n") : s \in LineSeqs(MaxNormLines)}

InitNorm ==
  /\ exists = TRUE
  /\ content \in NormInputs
  /\ sha = 1
  /\ puts = 0
  /\ released = <<>>
  /\ last = Record("init", NoFile, NoEntry, NoRelease, FALSE, "")
  /\ nops = 0
  /\ inv = [p \in Racers |-> Idle]
  /\ cls = NoChange

SpecNorm == InitNorm /\ [][ensureChangelog]_vars

----------------------------------------------------------------------------
(* Invocations side by side.  One step per remote call (await): reading    *)
(* the file, writing it, annotating the release.  What the code computes   *)
(* between two calls belongs to the step of the call before it.  A remote  *)
(* call may fail; the store refuses a write whose token is not the file's  *)
(* current one.  Nothing is caught or retried: run() reports the failure   *)
(* (index.ts 76-78).                                                       *)

\* the events delivered; typeofCategory is what typeof gives for the
\* category the entry carries
MalformedEntry == [prNumber |-> 0, title |-> "chore: tidy", category |-> "", scope |-> ""]

RaceEvents ==
  {[op |-> "add", entry |-> e, typeofCategory |-> "string", release |-> NoRelease] :
     e \in EntryInputs}
  \cup {[op |-> "add", entry |-> MalformedEntry, typeofCategory |-> "undefined",
         release |-> NoRelease]}
  \cup {[op |-> "release", entry |-> NoEntry, typeofCategory |-> "string", release |-> r] :
          r \in ReleaseInputs}

\* file?.sha: the token a write carries, none when the read found no file
tokenOf(file) == IF file.found THEN file.sha ELSE 0

\* addUnreleasedEntry up to its putFile call (600-611): the file is read and
\* the text to write is built; catHeader throws for a category that is not
\* a string
beginAddUnreleasedEntry(p, ev) ==
  /\ ev.op = "add"
  /\ inv[p].pc = "idle"
  /\ LET file == getFile
         entry == [ev.entry EXCEPT !.prNumber = FirstPr + nops]
         base == IF file.found THEN file.content ELSE HEADER
         begun == [Idle EXCEPT !.op = "add", !.file = file, !.entry = entry]
     IN  inv' = [inv EXCEPT ![p] =
                   IF ev.typeofCategory # "string"
                   THEN [begun EXCEPT !.pc = "failed", !.error = "category"]
                   ELSE [begun EXCEPT !.pc = "read", !.next = WithEntry(base, entry)]]
  /\ nops' = nops + 1
  /\ UNCHANGED <<exists, content, sha, puts, released, last, cls>>

\* releaseUnreleased up to its putFile call (635-663): it returns when there
\* is no file or nothing staged
beginReleaseUnreleased(p, ev) ==
  /\ ev.op = "release"
  /\ inv[p].pc = "idle"
  /\ LET file == getFile
         unreleasedBody == extractUnreleased(file.content)
         begun == [Idle EXCEPT !.op = "release", !.file = file, !.release = ev.release]
     IN  inv' = [inv EXCEPT ![p] =
                   IF ~file.found \/ unreleasedBody = ""
                   THEN [begun EXCEPT !.pc = "done"]
                   ELSE [begun EXCEPT !.pc = "read", !.extracted = unreleasedBody,
                           !.next = WithRelease(file.content, ev.release.tag, ev.release.now)]]
  /\ nops' = nops + 1
  /\ UNCHANGED <<exists, content, sha, puts, released, last, cls>>

\* the read itself fails (any status but 404: getFile rethrows, 406)
getFileFails(p) ==
  /\ inv[p].pc = "idle"
  /\ inv' = [inv EXCEPT ![p] = [Idle EXCEPT !.pc = "failed", !.error = "remote"]]
  /\ nops' = nops + 1
  /\ UNCHANGED <<exists, content, sha, puts, released, last, cls>>

\* the putFile call of either operation (613-622, 665-674), with the token
\* read: taken by the store, refused as stale, or failed otherwise
writeFile(p) ==
  /\ inv[p].pc = "read"
  /\ LET c == inv[p]
         mirrors == c.op = "release" /\ c.release.releaseId # 0
     IN  \/ /\ putFile(c.next, tokenOf(c.file))
            /\ inv' = [inv EXCEPT ![p] = [c EXCEPT !.wrote = TRUE,
                                            !.pc = IF mirrors THEN "wrote" ELSE "done"]]
         \/ /\ tokenOf(c.file) # tokenOf(getFile)
            /\ inv' = [inv EXCEPT ![p] = [c EXCEPT !.pc = "failed", !.error = "conflict"]]
            /\ UNCHANGED <<exists, content, sha, puts>>
         \/ /\ inv' = [inv EXCEPT ![p] = [c EXCEPT !.pc = "failed", !.error = "remote"]]
            /\ UNCHANGED <<exists, content, sha, puts>>
  /\ UNCHANGED <<released, last, nops, cls>>

\* the updateRelease call that follows the write of a cutover (677-685)
updateRelease(p) ==
  /\ inv[p].pc = "wrote"
  /\ \/ /\ released' = Append(released, inv[p].extracted \o "\n")
        /\ inv' = [inv EXCEPT ![p].pc = "done", ![p].mirrored = TRUE]
     \/ /\ inv' = [inv EXCEPT ![p].pc = "failed", ![p].error = "remote"]
        /\ UNCHANGED released
  /\ UNCHANGED <<exists, content, sha, puts, last, nops, cls>>

NextRace ==
  \E p \in Racers :
    \/ \E ev \in RaceEvents : beginAddUnreleasedEntry(p, ev)
    \/ \E ev \in RaceEvents : beginReleaseUnreleased(p, ev)
    \/ getFileFails(p)
    \/ writeFile(p)
    \/ updateRelease(p)

SpecRace == Init /\ [][NextRace]_vars

----------------------------------------------------------------------------
(* Classifier: categorize.ts.  A configuration is its ordered mapping of   *)
(* category names to alias lists (Object.keys order) and its list of       *)
(* breaking labels; an absent scope is the empty string.                   *)

\* norm: s.trim().toLowerCase()
norm(s) == toLowerCase(trim(s))

\* s.includes(pat) for a pattern that is not empty
includes(s, pat) == indexOf(s, pat) > 0

BREAKING_TOKENS == <<"breaking change", "breaking changes", "breaking-change", "breaking">>

COMMON_LABEL_ALIASES ==
  ("type: feat" :> "feat") @@ ("type: feature" :> "feat") @@ ("enhancement" :> "feat")
  @@ ("feature" :> "feat") @@ ("feat" :> "feat")
  @@ ("type: fix" :> "fix") @@ ("bug" :> "fix") @@ ("bugfix" :> "fix")
  @@ ("hotfix" :> "fix") @@ ("fix" :> "fix")
  @@ ("docs" :> "docs") @@ ("documentation" :> "docs")
  @@ ("perf" :> "perf") @@ ("performance" :> "perf")
  @@ ("refactor" :> "refactor") @@ ("refactoring" :> "refactor")
  @@ ("test" :> "test") @@ ("tests" :> "test")
  @@ ("chore" :> "chore") @@ ("maintenance" :> "chore")

\* s.replace(/^prefix\s*/, "")
stripPrefix(s, prefix) ==
  IF Sub(s, 1, Len(prefix)) = prefix THEN Sub(s, SkipWs(s, Len(prefix) + 1), Len(s)) ELSE s

normalizeLabel(l) ==
  LET n == norm(l)
      stripped == stripPrefix(stripPrefix(n, "type:"), "kind:")
  IN  IF stripped \in DOMAIN COMMON_LABEL_ALIASES THEN COMMON_LABEL_ALIASES[stripped]
      ELSE IF n \in DOMAIN COMMON_LABEL_ALIASES THEN COMMON_LABEL_ALIASES[n]
      ELSE stripped

\* CC_RE.exec(title), /^(\w+)(?:\(([^)]+)\))?(!)?:\s*(.+)$/i: whether it
\* matches, and the groups 1 (type), 2 (scope) and 3 (bang)
CC_RE(title) ==
  LET w == SkipWord(title, 1)
      close == indexOf(Sub(title, w + 1, Len(title)), ")")
      grouped == Ch(title, w) = "(" /\ close > 1
      s == IF grouped THEN w + close + 1 ELSE w
      b == IF Ch(title, s) = "!" THEN s + 1 ELSE s
      rest == Sub(title, b + 1, Len(title))
      terms == {i \in 1..Len(rest) : IsLineTerm(Ch(rest, i))}
      tail == IF terms = {} THEN 1 ELSE 1 + CHOOSE i \in terms : \A j \in terms : j <= i
  IN  [matched |-> /\ w > 1
                   /\ Ch(title, b) = ":"
                   /\ tail <= Len(rest)
                   /\ tail <= SkipWs(rest, 1),
       type |-> Sub(title, 1, w - 1),
       scope |-> IF grouped THEN Sub(title, w + 1, w + close - 1) ELSE "",
       bang |-> Ch(title, s) = "!"]

FALLBACKS ==
  <<"Features", "Fixes", "Docs", "Performance", "Refactor", "Tests", "Chores", "Misc">>

\* the elements of a list under norm
normAll(list) == {norm(list[i]) : i \in 1..Len(list)}

\* the labels of a change under normalizeLabel (99, 116)
normedLabels(labels) == {normalizeLabel(labels[i]) : i \in 1..Len(labels)}

\* 93-113: the breaking flag; the labels are looked at only when the
\* configured list is not empty
isBreaking(title, labels, cfg, bang) ==
  LET lowerTitle == norm(title)
      byLabel ==
        /\ Len(cfg.breakingLabels) > 0
        /\ \E lab \in normedLabels(labels) :
             \/ lab \in normAll(cfg.breakingLabels)
             \/ lab = "breaking"
             \/ lab = "breaking-change"
      byTitle == \E k \in 1..Len(BREAKING_TOKENS) : includes(lowerTitle, BREAKING_TOKENS[k])
  IN  bang \/ byLabel \/ byTitle

\* the categories, by their place in the configured order, that a label names
labelMatches(labels, cfg) ==
  LET cats == cfg.categories
      normed == normedLabels(labels)
  IN  {i \in 1..Len(cats) :
         \/ norm(cats[i].name) \in normed
         \/ normAll(cats[i].aliases) \cap normed # {}}

\* the last category in configured order wins
labelCategoryLast(labels, cfg) ==
  LET hits == labelMatches(labels, cfg)
  IN  IF hits = {} THEN 0 ELSE CHOOSE i \in hits : \A j \in hits : j <= i

\* 116-127: the first category in configured order that a label names (0: none)
labelCategory(labels, cfg) == FirstIndex(labelMatches(labels, cfg), 0)

\* 72-80, 130-131: aliasToCategory.get(type), where a later set() of the
\* same key replaces an earlier one (0: the map has no such key)
typeCategory(type, cfg) ==
  LET cats == cfg.categories
      hits == {i \in 1..Len(cats) :
                 type = norm(cats[i].name) \/ type \in normAll(cats[i].aliases)}
  IN  IF hits = {} THEN 0 ELSE CHOOSE i \in hits : \A j \in hits : j <= i

\* the first configured category, whatever the fixed list holds
fallbackFirstConfigured(cfg) ==
  IF Len(cfg.categories) > 0 THEN cfg.categories[1].name ELSE "Changes"

\* 135-146: fallback ?? categoryOrder[0] ?? "Changes"
fallbackCategory(cfg) ==
  LET cats == cfg.categories
      found == {k \in 1..Len(FALLBACKS) : \E i \in 1..Len(cats) : cats[i].name = FALLBACKS[k]}
  IN  IF found # {} THEN FALLBACKS[FirstIndex(found, 0)]
      ELSE IF Len(cats) > 0 THEN cats[1].name
      ELSE "Changes"

categorize(title, labels, cfg) ==
  LET cats == cfg.categories
      m == CC_RE(title)
      type == IF m.matched THEN norm(m.type) ELSE ""
      scope == IF m.matched THEN m.scope ELSE ""
      bang == m.matched /\ m.bang
      breaking == isBreaking(title, labels, cfg, bang)
      byLabel == labelCategory(labels, cfg)
      byType == IF type # "" THEN typeCategory(type, cfg) ELSE 0
      category == IF byLabel # 0 THEN cats[byLabel].name
                  ELSE IF byType # 0 THEN cats[byType].name
                  ELSE fallbackCategory(cfg)
  IN  [category |-> category, breaking |-> breaking, scope |-> scope]

----------------------------------------------------------------------------
(* Bump advisor: semver.ts 7-60 *)

MINOR_CATS == {"features", "feature", "enhancements", "adds", "new"}

PATCH_CATS ==
  {"fixes", "fix", "bug", "bugs", "docs", "documentation", "refactor", "tests", "test",
   "performance", "perf", "chore", "chores", "misc"}

\* the substrings of the fuzzy fallback that give patch (46-54)
PatchWords == {"fix", "bug", "docs", "refactor", "perf", "test", "chore", "misc"}

\* the category looked at first: a breaking fix gives patch
suggestBumpCategoryFirst(res) ==
  LET key == norm(res.category)
  IN  IF key \in MINOR_CATS THEN "minor"
      ELSE IF key \in PATCH_CATS THEN "patch"
      ELSE IF res.breaking THEN "major"
      ELSE "none"

suggestBump(res) ==
  LET key == norm(res.category)
  IN  IF res.breaking THEN "major"
      ELSE IF key \in MINOR_CATS THEN "minor"
      ELSE IF key \in PATCH_CATS THEN "patch"
      ELSE IF includes(key, "feature") THEN "minor"
      ELSE IF \E w \in PatchWords : includes(key, w) THEN "patch"
      ELSE "none"

----------------------------------------------------------------------------
(* Classification of one change: index.ts 55-68.  The title, the labels    *)
(* and the configuration are drawn from the sets below; suggestBump is     *)
(* also given classifications that no configuration here produces.         *)

MaxLabels == 2    \* labels on a change

\* applyDefaults, github.ts 137-151
DefaultConfig ==
  [categories |->
     << [name |-> "Features", aliases |-> <<"feature", "feat", "enhancement">>],
        [name |-> "Fixes", aliases |-> <<"fix", "bug", "bugfix", "hotfix">>],
        [name |-> "Docs", aliases |-> <<"docs", "documentation">>],
        [name |-> "Performance", aliases |-> <<"perf", "performance">>],
        [name |-> "Refactor", aliases |-> <<"refactor", "refactoring">>],
        [name |-> "Tests", aliases |-> <<"test", "tests">>],
        [name |-> "Chores", aliases |-> <<"chore", "maintenance">> ] >>,
   breakingLabels |-> <<"breaking", "breaking-change", "major">>]

Configs ==
  { DefaultConfig,
    \* aliases listed without their short form; an alias under two categories
    [categories |->
       << [name |-> "Features", aliases |-> <<"feat">>],
          [name |-> "Fixes", aliases |-> <<"bug">>],
          [name |-> "Security", aliases |-> <<"security", "Feat", "documentation">>] >>,
     breakingLabels |-> <<"major">>],
    \* one name of the fallback list, not the first category; no breaking labels
    [categories |->
       << [name |-> "Security", aliases |-> <<"sec">>],
          [name |-> "Misc", aliases |-> <<"question">>] >>,
     breakingLabels |-> <<>>],
    \* no name of the fallback list
    [categories |->
       << [name |-> "Security", aliases |-> <<"sec", "security">>],
          [name |-> "New", aliases |-> <<"enhancement">>] >>,
     breakingLabels |-> <<"Semver-Major ", "security">>],
    \* nothing configured
    [categories |-> <<>>, breakingLabels |-> <<"breaking">>] }

Titles ==
  { "fix: clamp invalid question number", "feat(api)!: add export",
    "feat(api): add export", "fix(core): Breaking change in parser",
    "Update readme", "wip: try things", "sec: rotate keys", "Docs: tidy" }

Labels ==
  { "bug", "enhancement", "documentation", "Type: Fix", "breaking", "major",
    "security", "question", "feat" }

RECURSIVE LabelLists(_)
LabelLists(n) ==
  IF n = 0 THEN {<<>>}
  ELSE LET shorter == LabelLists(n - 1)
       IN  shorter \cup {Append(l, x) : l \in {y \in shorter : Len(y) = n - 1}, x \in Labels}

Classifications ==
  [category : {"Features", " Fixes ", "Misc", "New", "Bug features", "Security",
               "Changes", "Documentation", "Perf tweaks", "Hotfixes"},
   breaking : BOOLEAN, scope : {""}]

\* categorize(pr.title, labels, cfg), index.ts 55-59
classifyChange ==
  /\ cls.pc = "start"
  /\ cls' = [cls EXCEPT !.pc = "classified",
                        !.res = categorize(cls.title, cls.labels, cls.cfg)]
  /\ UNCHANGED <<exists, content, sha, puts, released, last, nops, inv>>

\* core.setOutput("bump", suggestBump(res)), index.ts 68
outputBump ==
  /\ cls.pc = "classified"
  /\ cls' = [cls EXCEPT !.pc = "done", !.bump = suggestBump(cls.res),
                        !.emitted = Append(cls.emitted, suggestBump(cls.res))]
  /\ UNCHANGED <<exists, content, sha, puts, released, last, nops, inv>>

InitClassify ==
  /\ exists = FALSE /\ content = "" /\ sha = 0
  /\ puts = 0
  /\ released = <<>>
  /\ last = Record("init", NoFile, NoEntry, NoRelease, FALSE, "")
  /\ nops = 0
  /\ inv = [p \in Racers |-> Idle]
  /\ \/ \E t \in Titles, l \in LabelLists(MaxLabels), c \in Configs :
          cls = [NoChange EXCEPT !.pc = "start", !.title = t, !.labels = l, !.cfg = c]
     \/ \E r \in Classifications :
          cls = [NoChange EXCEPT !.pc = "classified", !.res = r]

NextClassify == classifyChange \/ outputBump

SpecClassify == InitClassify /\ [][NextClassify]_vars

----------------------------------------------------------------------------
(* combineBumps: semver.ts 63-68, applied to every list of bumps of up to  *)
(* MaxBumps elements                                                       *)

MaxBumps == 3    \* elements of a list of bumps

Bumps == {"major", "minor", "patch", "none"}

\* bumps.includes(b)
includesBump(bumps, b) == \E i \in 1..Len(bumps) : bumps[i] = b

\* the first element of the list, none for the empty list
combineBumpsFirst(bumps) == IF bumps = <<>> THEN "none" ELSE bumps[1]

combineBumps(bumps) ==
  IF includesBump(bumps, "major") THEN "major"
  ELSE IF includesBump(bumps, "minor") THEN "minor"
  ELSE IF includesBump(bumps, "patch") THEN "patch"
  ELSE "none"

RECURSIVE BumpLists(_)
BumpLists(n) ==
  IF n = 0 THEN {<<>>}
  ELSE LET shorter == BumpLists(n - 1)
       IN  shorter \cup {Append(l, b) : l \in {y \in shorter : Len(y) = n - 1}, b \in Bumps}

combineStep ==
  /\ cls.pc = "bumps"
  /\ cls' = [cls EXCEPT !.pc = "combined", !.combined = combineBumps(cls.bumps)]
  /\ UNCHANGED <<exists, content, sha, puts, released, last, nops, inv>>

InitCombine ==
  /\ exists = FALSE /\ content = "" /\ sha = 0
  /\ puts = 0
  /\ released = <<>>
  /\ last = Record("init", NoFile, NoEntry, NoRelease, FALSE, "")
  /\ nops = 0
  /\ inv = [p \in Racers |-> Idle]
  /\ \E l \in BumpLists(MaxBumps) : cls = [NoChange EXCEPT !.pc = "bumps", !.bumps = l]

SpecCombine == InitCombine /\ [][combineStep]_vars

----------------------------------------------------------------------------
(* formatBullet: changelog.ts 475-479, applied to titles with and without  *)
(* the prefix, with and without a scope                                    *)

BulletTitles ==
  { "fix: clamp invalid question number", "feat(api)!: add export",
    "Update readme", "chore(): tidy up", "docs:typo", "Fix : spacing",
    " Update readme ", "refactor!: drop v1 ", "fix:", ": no type" }

BulletScopes == {"", "api", "web-ui"}

PrNumbers == {7, 128}

formatStep ==
  /\ cls.pc = "entry"
  /\ cls' = [cls EXCEPT !.pc = "formatted",
                        !.line = formatBullet(cls.title, cls.prNumber, cls.res.scope)]
  /\ UNCHANGED <<exists, content, sha, puts, released, last, nops, inv>>

InitBullet ==
  /\ exists = FALSE /\ content = "" /\ sha = 0
  /\ puts = 0
  /\ released = <<>>
  /\ last = Record("init", NoFile, NoEntry, NoRelease, FALSE, "")
  /\ nops = 0
  /\ inv = [p \in Racers |-> Idle]
  /\ \E t \in BulletTitles, sc \in BulletScopes, n \in PrNumbers :
       cls = [NoChange EXCEPT !.pc = "entry", !.title = t, !.prNumber = n,
                              !.res.scope = sc]

SpecBullet == InitBullet /\ [][formatStep]_vars

----------------------------------------------------------------------------
(* run(): index.ts 18-74, one run for one event, as invocation 1.  Another *)
(* invocation, 2, adds entries of its own meanwhile.  A step is what run() *)
(* does between two awaits.                                                *)

\* the events a run is started for: a pull request closed with merged set,
\* one closed without, a release published
RunTitles == {"feat(api)!: add export", "fix: clamp invalid question number", "Update readme"}

RunLabelLists == {<<>>, <<"bug">>, <<"breaking">>}

RunDocs == {HEADER, Title \o "## [Unreleased]\n### Fixes\n- a (#1)\n\n" \o OldVersion}

RunStarts ==
  {[NoChange EXCEPT !.pc = "run", !.event = e, !.title = t, !.labels = l,
                    !.cfg = DefaultConfig] :
     e \in {"merged", "closed"}, t \in RunTitles, l \in RunLabelLists}
  \cup {[NoChange EXCEPT !.pc = "run", !.event = "release"]}

\* the entry run() passes to addUnreleasedEntry (61-66), without workspace
\* detection: the scope is the one of the classification
entryOf(c) ==
  [prNumber |-> 0, title |-> c.title, category |-> c.res.category, scope |-> c.res.scope]

\* 26-59: the event is a merge, the change is classified
runMerged ==
  /\ cls.event = "merged"
  /\ cls.pc = "run"
  /\ cls' = [cls EXCEPT !.pc = "classified",
                        !.res = categorize(cls.title, cls.labels, cls.cfg)]
  /\ UNCHANGED <<exists, content, sha, puts, released, last, nops, inv>>

\* 61-66: addUnreleasedEntry is called with the classification
runAdd ==
  /\ cls.pc = "classified"
  /\ beginAddUnreleasedEntry(1, [op |-> "add", entry |-> entryOf(cls),
                                 typeofCategory |-> "string", release |-> NoRelease])

\* 71-73: the event is a release published
runRelease ==
  /\ cls.event = "release"
  /\ cls.pc = "run"
  /\ \E r \in ReleaseInputs :
       beginReleaseUnreleased(1, [op |-> "release", entry |-> NoEntry,
                                  typeofCategory |-> "string", release |-> r])

\* the read of either operation fails
runReadFails ==
  /\ \/ cls.pc = "classified"
     \/ cls.pc = "run" /\ cls.event = "release"
  /\ getFileFails(1)

\* a bump given out as soon as the change is classified
runEmitEarly == outputBump

\* 68: addUnreleasedEntry has returned
runEmit ==
  /\ inv[1].pc = "done"
  /\ inv[1].op = "add"
  /\ outputBump

\* 26-30, 71: neither condition holds, run() returns
runNothing ==
  /\ cls.event = "closed"
  /\ cls.pc = "run"
  /\ cls' = [cls EXCEPT !.pc = "done"]
  /\ UNCHANGED <<exists, content, sha, puts, released, last, nops, inv>>

\* the other invocation
otherAdds == \E e \in EntryInputs :
  beginAddUnreleasedEntry(2, [op |-> "add", entry |-> e, typeofCategory |-> "string",
                              release |-> NoRelease])

InitRun ==
  /\ \/ exists = FALSE /\ content = "" /\ sha = 0
     \/ exists = TRUE /\ content \in RunDocs /\ sha = 1
  /\ puts = 0
  /\ released = <<>>
  /\ last = Record("init", NoFile, NoEntry, NoRelease, FALSE, "")
  /\ nops = 0
  /\ inv = [p \in Racers |-> Idle]
  /\ cls \in RunStarts

NextRun ==
  \/ runMerged
  \/ runAdd
  \/ runRelease
  \/ runReadFails
  \/ writeFile(1)
  \/ updateRelease(1)
  \/ runEmit
  \/ runNothing
  \/ otherAdds
  \/ writeFile(2)

SpecRun == InitRun /\ [][NextRun]_vars

----------------------------------------------------------------------------
(* Reading a document by its format: header, "## " sections of which the   *)
(* staging section is titled Unreleased (bracketed or not, any case),      *)
(* "### " category blocks, entry lines.  These definitions state what the  *)
(* claims speak of; none of them is used by the operations above.          *)

DocLines(t) == splitNl(t)

IsBlank(l) == trim(l) = ""
IsSectionHeader(l) == Sub(l, 1, 3) = "## "
IsStagingHeader(l) ==
  IsSectionHeader(l) /\ toLowerCase(trimEnd(l)) \in {"## [unreleased]", "## unreleased"}
IsCategoryHeader(l) == Sub(trimStart(l), 1, 4) = "### "
IsCategoryOf(l, category) ==
  IsCategoryHeader(l) /\ toLowerCase(trim(l)) = "### " \o toLowerCase(trim(category))

Least(S) == CHOOSE i \in S : \A j \in S : i <= j

NonBlank(ls) == SelectSeq(ls, LAMBDA l : ~IsBlank(l))

RECURSIVE DropTrailingBlank(_)
DropTrailingBlank(ls) ==
  IF ls # <<>> /\ IsBlank(ls[Len(ls)]) THEN DropTrailingBlank(SubSeq(ls, 1, Len(ls) - 1)) ELSE ls

\* a document read once: its lines; the indices of its staging header lines;
\* the staging section, from its header line (at, 0: none) to the line
\* before the next section header (end - 1); the lines before and after it
Doc(t) ==
  LET ls == DocLines(t)
      n == Len(ls)
      hs == {i \in 1..n : IsStagingHeader(ls[i])}
      at == IF hs = {} THEN 0 ELSE Least(hs)
      later == {i \in (at + 1)..n : IsSectionHeader(ls[i])}
      end == IF later = {} THEN n + 1 ELSE Least(later)
      staging == IF at = 0 THEN <<>> ELSE sliceSeq(ls, at + 1, end - 1)
  IN  [lines |-> ls, headers |-> hs, at |-> at, end |-> end,
       headerLine |-> IF at = 0 THEN "" ELSE ls[at],
       staging |-> staging,
       body |-> join(staging, "\n"),
       rawBody |-> join(staging, "\n") \o (IF at > 0 /\ end <= n THEN "\n" ELSE ""),
       next |-> IF at > 0 /\ end <= n THEN ls[end] ELSE "",
       before |-> sliceSeq(ls, 1, at - 1),
       after |-> DropTrailingBlank(sliceSeq(ls, end, n)),
       versions |-> {i \in 1..n : IsSectionHeader(ls[i]) /\ ~IsStagingHeader(ls[i])},
       titles |-> SelectSeq(ls, LAMBDA l : IsSectionHeader(l) /\ ~IsStagingHeader(l))]

StagingHeaders(t) == Doc(t).headers
VersionHeaders(t) == Doc(t).versions
StagingLines(t) == Doc(t).staging
StagingBody(t) == Doc(t).body

EndsWithOneNewline(b) == Ch(b, Len(b)) = "\n" /\ Ch(b, Len(b) - 1) # "\n"

\* in the lines ls of a staging body, the block of a category: the entry lines
\* under its header (at, 0: none) up to the next category header, and the
\* header and entry lines of all the other blocks, in document order
Block(ls, category) ==
  LET n == Len(ls)
      hs == {i \in 1..n : IsCategoryOf(ls[i], category)}
      at == IF hs = {} THEN 0 ELSE Least(hs)
      later == {i \in (at + 1)..n : IsCategoryHeader(ls[i])}
      end == IF later = {} THEN n + 1 ELSE Least(later)
  IN  [at |-> at,
       entries |-> IF at = 0 THEN <<>> ELSE NonBlank(sliceSeq(ls, at + 1, end - 1)),
       others |-> IF at = 0 THEN NonBlank(ls)
                  ELSE NonBlank(sliceSeq(ls, 1, at - 1) \o sliceSeq(ls, end, n))]

\* the document the section editor is given by the invocation that ran last
Given == ensureHeaderAndUnreleased(IF last.found THEN last.pre ELSE HEADER)
Bullet == formatBullet(last.entry.title, last.entry.prNumber, last.entry.scope)

----------------------------------------------------------------------------
(* Claims about the normalizer, checked under SpecNorm *)

\* C1: normalizing twice gives the same text as normalizing once, for every
\* text the file may hold (empty, without sections, with a staging section
\* under either spelling) and for every text the normalizer has written.
C1_NormalizeIdempotent ==
  ensureHeaderAndUnreleased(ensureHeaderAndUnreleased(content))
    = ensureHeaderAndUnreleased(content)

\* a second normalization ran on a document the first one had to change,
\* and it wrote nothing
C1_Witness ==
  /\ last.op = "ensure" /\ nops = 2 /\ puts = 1 /\ ~last.wrote
  /\ StagingHeaders(content) # {}

\* C2 (as claimed): the normalized document holds exactly one staging header
\* line, and when the input had none the inserted one precedes every version
\* section.
C2_ExactlyOneStagingFirst ==
  (last.op = "ensure" /\ last.found) =>
    LET doc == Doc(content)
    IN  /\ Cardinality(doc.headers) = 1
        /\ StagingHeaders(last.pre) = {} =>
             \A s \in doc.headers : \A v \in doc.versions : s < v

\* C3 (as claimed): in the normalized document the staging body ends with
\* exactly one trailing newline, whether the body is read as the lines between
\* the headers or as the text up to the next section header.
C3_BodyEndsWithOneNewline ==
  (last.op = "ensure" /\ last.found) =>
    \/ EndsWithOneNewline(Doc(content).body)
    \/ EndsWithOneNewline(Doc(content).rawBody)

----------------------------------------------------------------------------
(* Claims about the section editor and the cutover, checked under Spec *)

\* C4: when the category of an insert already has a header in the staging
\* section the editor is given (names compared without case), the new entry
\* line is the first entry under that header and the entries that were there
\* follow it in their order: most recent first.
C4_InsertedAheadOfExistingEntries ==
  last.op = "add" =>
    LET was == Block(StagingLines(Given), last.entry.category)
    IN  was.at > 0 =>
          Block(StagingLines(content), last.entry.category).entries
            = <<Bullet>> \o was.entries

\* 55 was inserted into Fixes, then 56 into fixes: 56 is listed before 55
C4_Witness ==
  /\ last.op = "add" /\ last.entry.prNumber = 56 /\ last.entry.category = "fixes"
  /\ Block(StagingLines(content), "Fixes").entries
       = <<"- Update readme (#56)", "- clamp invalid question number (#55)">>

\* C5 (as claimed): an insert leaves the document header, every version
\* section (line for line, blank lines included) and the header and entry
\* lines of every other category block as they were, in their order.
C5_InsertLeavesTheRestUnchanged ==
  last.op = "add" =>
    LET was == Doc(Given)
        now == Doc(content)
    IN  /\ now.before = was.before
        /\ now.after = was.after
        /\ Block(now.staging, last.entry.category).others
             = Block(was.staging, last.entry.category).others

\* C6 (as claimed): with an empty staging section, inserting the title
\* "fix: clamp invalid question number" as Fixes with referenceId 55 makes the
\* staging body "### Fixes\n- Clamp invalid question number (#55)\n" (compared
\* up to the blank lines that end the body).
C6_ScenarioA ==
  ( /\ last.op = "add"
    /\ trim(StagingBody(Given)) = ""
    /\ last.entry.title = "fix: clamp invalid question number"
    /\ last.entry.category = "Fixes"
    /\ last.entry.prNumber = 55 ) =>
    trimEnd(StagingBody(content)) \o "\n"
      = "### Fixes\n- Clamp invalid question number (#55)\n"

\* the title of the version section each release event is to create
ExpectedTitle(r) ==
  CASE r.tag = "v0.1.0" -> "## [0.1.0] ~ 2024-01-01"
    [] r.tag = "1.2.0" -> "## [1.2.0] ~ 2024-11-23"
    [] r.tag = "V2.0.0" -> "## [2.0.0] ~ 2025-03-09"

Cutover == last.op = "release" /\ last.found /\ trim(StagingBody(last.pre)) # ""

\* C7: a release event on a document whose staging body is not empty writes a
\* document in which the staging header line is the one it was, the staging
\* body is empty, and the section right below it is the new version section,
\* titled with the tag without its leading v and the date, above all the
\* version sections there were, which keep their order.
C7_CutoverCreatesVersionSection ==
  Cutover =>
    LET was == Doc(last.pre)
        now == Doc(content)
    IN  /\ last.wrote
        /\ now.at > 0 /\ now.headerLine = was.headerLine
        /\ now.body = ""
        /\ now.next = ExpectedTitle(last.release)
        /\ now.titles = <<ExpectedTitle(last.release)>> \o was.titles

\* v0.1.0 was released on 2024-01-01 above an older version section
C7_Witness ==
  /\ Cutover /\ last.release.tag = "v0.1.0"
  /\ Doc(content).titles = <<"## [0.1.0] ~ 2024-01-01", "## [1.0.0] ~ 2023-05-01">>

\* C8: a release event on a document whose staging body is empty or white
\* space only issues no write, leaves the stored document and its token as
\* they are, extracts nothing and sends nothing to the release annotation.
C8_EmptyCutoverIsNoOp ==
  [][ ( /\ last'.op = "release" /\ nops' = nops + 1
        /\ exists /\ trim(StagingBody(content)) = "" )
      => ( /\ UNCHANGED <<exists, content, sha, puts, released>>
           /\ ~last'.wrote /\ last'.extracted = "" ) ]_vars

\* a release event found a staging section holding white space only
C8_Witness ==
  /\ last.op = "release" /\ last.found /\ ~last.wrote
  /\ StagingHeaders(last.pre) # {} /\ StagingBody(last.pre) # ""
  /\ trim(StagingBody(last.pre)) = ""
  /\ content = last.pre /\ released = <<>>

\* C9: on a cutover the extracted body is the staging body there was, less
\* white space at its ends: the same category headers and entry lines in the
\* same order; and it is what the release annotation receives, with one
\* newline after it.
C9_ExtractedBodyIsWhatWasStaged ==
  Cutover =>
    LET body == StagingBody(last.pre)
        x == last.extracted
    IN  /\ NonBlank(splitNl(x)) = NonBlank(StagingLines(last.pre))
        /\ \E i \in 1..Len(body) :
             /\ Sub(body, i, i + Len(x) - 1) = x
             /\ trim(Sub(body, 1, i - 1)) = ""
             /\ trim(Sub(body, i + Len(x), Len(body))) = ""
        /\ last.release.releaseId # 0 =>
             released # <<>> /\ released[Len(released)] = x \o "\n"

\* two category blocks that followed a blank line were extracted and mirrored
C9_Witness ==
  /\ Cutover /\ last.release.releaseId # 0
  /\ Len(NonBlank(splitNl(last.extracted))) >= 4
  /\ IsBlank(StagingLines(last.pre)[1])
  /\ released = <<last.extracted \o "\n">>

----------------------------------------------------------------------------
(* Claim about the staging section's lifetime, checked under SpecNormalized *)

\* C10 (as claimed): once the document is normalized, after every sequence
\* of inserts and cutovers it holds exactly one staging header line; right
\* after a cutover the staging body is empty and normalizing the document
\* again leaves it unchanged.
C10_OneStagingSectionForEver ==
  nops >= 1 =>
    /\ Cardinality(StagingHeaders(content)) = 1
    /\ (last.op = "release" /\ last.wrote) =>
         /\ trim(StagingBody(content)) = ""
         /\ ensureHeaderAndUnreleased(content) = content

----------------------------------------------------------------------------
(* Claims about version sections and category blocks over many events *)

\* the version sections of a document in document order: each one's title
\* line and the lines under it up to the next section header, blank lines
\* included
VersionSections(t) ==
  LET d == Doc(t)
      ls == d.lines
      n == Len(ls)
      hs == {i \in 1..n : IsSectionHeader(ls[i])}
      vs == d.versions
      endOf(i) == LET later == {j \in hs : j > i}
                  IN  IF later = {} THEN n + 1 ELSE Least(later)
      idx(k) == CHOOSE i \in vs : Cardinality({j \in vs : j < i}) = k - 1
  IN  [k \in 1..Cardinality(vs) |->
         [title |-> ls[idx(k)], body |-> sliceSeq(ls, idx(k) + 1, endOf(idx(k)) - 1)]]

\* the titles cutovers give; no document found on the branch carries one, so
\* a section with such a title is one a cutover created
CreatedTitles == {ExpectedTitle(r) : r \in ReleaseInputs}
CreatedSections(t) == SelectSeq(VersionSections(t), LAMBDA v : v.title \in CreatedTitles)
TitlesOf(secs) == [k \in 1..Len(secs) |-> secs[k].title]

\* C11: every insert and every release event leaves the version sections
\* that cutovers created as they are, title and body line for line and in
\* their order; a cutover adds its section above them; and the titles of all
\* version sections keep their relative order.
C11_CreatedVersionSectionsImmutable ==
  [][ (nops' = nops + 1 /\ exists) =>
        LET was == CreatedSections(content)
            now == CreatedSections(content')
            cut == last'.op = "release" /\ last'.wrote
        IN  /\ now = (IF cut THEN <<now[1]>> ELSE <<>>) \o was
            /\ cut => now[1].title = ExpectedTitle(last'.release)
            /\ TitlesOf(VersionSections(content'))
                 = (IF cut THEN <<ExpectedTitle(last'.release)>> ELSE <<>>)
                     \o TitlesOf(VersionSections(content)) ]_vars

\* a cutover, then an insert, then a second cutover: two created sections,
\* the later one above the earlier one
C11_Witness ==
  /\ nops = 3 /\ last.op = "release" /\ last.wrote
  /\ Len(CreatedSections(content)) = 2
  /\ CreatedSections(content)[1].title = ExpectedTitle(last.release)
  /\ CreatedSections(content)[2].body # <<>>

\* the category header lines of a staging body, trimmed, in lower case
CategoryKeys(ls) ==
  LET hs == {i \in 1..Len(ls) : IsCategoryHeader(ls[i])}
  IN  [i \in hs |-> toLowerCase(trim(ls[i]))]

\* C12: after every sequence of inserts and cutovers, from the minimal
\* document as from every document found on the branch, no two category
\* headers of the staging section are equal when compared without case.
C12_CategoryNamesUnique ==
  exists =>
    LET keys == CategoryKeys(StagingLines(content))
    IN  \A i, j \in DOMAIN keys : i # j => keys[i] # keys[j]

\* from the minimal document: "Update readme" went into fixes, then the clamp
\* fix into Fixes; the staging section holds the one block "### fixes"
C12_Witness ==
  /\ nops = 2 /\ last.op = "add" /\ last.entry.category = "Fixes"
  /\ Doc(content).before = splitNl("# Changelog\nAll notable changes to this project will be documented in this file.\n")
  /\ VersionHeaders(content) = {}
  /\ NonBlank(StagingLines(content))
       = <<"### fixes", "- clamp invalid question number (#56)", "- Update readme (#55)">>

----------------------------------------------------------------------------
(* Claims about invocations side by side, checked under SpecRace *)

\* two invocations, as they stand, have both read the file and read the
\* same content and token: neither had written when the other read
Raced(a, b) == a.op # "" /\ b.op # "" /\ a.file = b.file

\* the text holds what invocation c wrote: the entry line of its insert, or
\* a version section with its title and the lines it took from staging
HoldsEditOf(c, text) ==
  IF c.op = "add"
  THEN LET ls == DocLines(text)
           bullet == formatBullet(c.entry.title, c.entry.prNumber, c.entry.scope)
       IN  \E i \in 1..Len(ls) : ls[i] = bullet
  ELSE LET secs == VersionSections(text)
           taken == NonBlank(splitNl(c.extracted))
       IN  \E k \in 1..Len(secs) :
             secs[k].title = ExpectedTitle(c.release) /\ NonBlank(secs[k].body) = taken

\* C13: of two invocations that read the same content and token, at most
\* one writes and at most one fails with a conflict; the stored document
\* holds the edit of every invocation whose write succeeded; an invocation
\* that failed does nothing more, and the step it failed in left the stored
\* document and its token as they were.
C13_StaleWriteFailsNoLostUpdate ==
  [][ /\ \A p, q \in Racers :
           (p # q /\ Raced(inv'[p], inv'[q])) =>
             /\ ~(inv'[p].wrote /\ inv'[q].wrote)
             /\ ~(inv'[p].error = "conflict" /\ inv'[q].error = "conflict")
      /\ \A p \in Racers : inv'[p].wrote => HoldsEditOf(inv'[p], content')
      /\ \A p \in Racers :
           /\ inv[p].pc = "failed" => inv'[p] = inv[p]
           /\ (inv[p].pc = "read" /\ inv'[p].pc = "failed") =>
                UNCHANGED <<exists, content, sha, puts, released>> ]_vars

\* two inserts read the same file; the first write was taken, the second
\* was refused as stale and the document holds the first one's entry only
C13_Witness ==
  \E p, q \in Racers :
    /\ p # q /\ Raced(inv[p], inv[q]) /\ inv[p].file.found
    /\ inv[p].op = "add" /\ inv[q].op = "add"
    /\ inv[p].pc = "done" /\ inv[p].wrote
    /\ inv[q].pc = "failed" /\ inv[q].error = "conflict"
    /\ content = inv[p].next /\ puts = 1

\* C14 (as claimed): an invocation that has failed, for a stale token, for
\* another failed remote call or for a category that is not a string, has
\* written neither the document nor the release annotation.
C14_FailedInvocationWroteNothing ==
  \A p \in Racers : inv[p].pc = "failed" => ~inv[p].wrote /\ ~inv[p].mirrored

----------------------------------------------------------------------------
(* Claim about a missing file, checked under Spec *)

\* the text is the minimal document, title header and staging section,
\* holding these lines and no others in its staging section
MinimalWith(text, staged) ==
  LET d == Doc(text)
  IN  /\ d.before = <<"# Changelog",
                      "All notable changes to this project will be documented in this file.",
                      "">>
      /\ d.headerLine = "## [Unreleased]"
      /\ Cardinality(d.headers) = 1 /\ d.versions = {}
      /\ NonBlank(d.staging) = staged

\* C15 (as claimed): an insert or a release event that finds no file creates
\* the minimal document in the store, with the entry under its category
\* for an insert and with an empty staging section for a release event.
C15_MissingFileCreatesMinimalDocument ==
  (last.op \in {"add", "release"} /\ ~last.found) =>
    /\ exists /\ last.wrote /\ puts = 1
    /\ MinimalWith(content, IF last.op = "add"
                            THEN <<"### " \o last.entry.category, Bullet>>
                            ELSE <<>>)

----------------------------------------------------------------------------
(* Claims about the classifier and the bump advisor, checked under         *)
(* SpecClassify.  What a label, a title or a category name stands for is   *)
(* written out here for the inputs of the specification.                   *)

\* a label as the contract normalizes it: lower case, trimmed, without
\* "type:" or "kind:", common spellings collapsed
ExpectedLabel(l) ==
  CASE l = "bug" -> "fix"
    [] l = "enhancement" -> "feat"
    [] l = "documentation" -> "docs"
    [] l = "Type: Fix" -> "fix"
    [] OTHER -> l

\* the type a title carries in lower case ("": none), whether it carries the
\* bang, and whether it holds a breaking-change phrase
ExpectedType(t) ==
  CASE t \in {"fix: clamp invalid question number", "fix(core): Breaking change in parser"} -> "fix"
    [] t \in {"feat(api)!: add export", "feat(api): add export"} -> "feat"
    [] t = "wip: try things" -> "wip"
    [] t = "sec: rotate keys" -> "sec"
    [] t = "Docs: tidy" -> "docs"
    [] OTHER -> ""
ExpectedBang(t) == t = "feat(api)!: add export"
ExpectedPhrase(t) == t = "fix(core): Breaking change in parser"

\* a name or alias of the configuration, compared as the contract compares
Folded(x) == toLowerCase(trim(x))
NamesOf(cat) == {Folded(cat.name)} \cup {Folded(cat.aliases[a]) : a \in 1..Len(cat.aliases)}

\* the change was classified: categorize has returned cls.res
Categorized == cls.pc \in {"classified", "done"} /\ cls.title # ""

\* the categories, by their place in the configured order, that some label
\* of the change names
NamedByLabel ==
  LET ns == {ExpectedLabel(cls.labels[i]) : i \in 1..Len(cls.labels)}
  IN  {i \in 1..Len(cls.cfg.categories) : NamesOf(cls.cfg.categories[i]) \cap ns # {}}

\* C16: when a normalized label is the name or an alias of a configured
\* category, the category returned is the first such category in configured
\* order, whatever type the title carries.
C16_LabelMatchWinsInConfiguredOrder ==
  (Categorized /\ NamedByLabel # {}) =>
    cls.res.category = cls.cfg.categories[Least(NamedByLabel)].name

\* the title says fix, the labels name Fixes and then Features: Features,
\* the earlier category, is returned
C16_Witness ==
  /\ Categorized /\ cls.cfg = DefaultConfig
  /\ cls.title = "fix: clamp invalid question number"
  /\ cls.labels = <<"bug", "enhancement">>
  /\ cls.res.category = "Features"

\* C17 (as claimed): a change whose only label is an alias configured for a
\* category, no earlier category having it as name or alias, is classified
\* into that category, whatever its title.
C17_EveryConfiguredAliasSelectsItsCategory ==
  (Categorized /\ Len(cls.labels) = 1) =>
    LET cats == cls.cfg.categories
        l == Folded(cls.labels[1])
    IN  \A i \in 1..Len(cats) :
          ( /\ \E a \in 1..Len(cats[i].aliases) : Folded(cats[i].aliases[a]) = l
            /\ \A j \in 1..(i - 1) : l \notin NamesOf(cats[j]) )
          => cls.res.category = cats[i].name

\* the names of the fixed priority list
PriorityNames ==
  <<"Features", "Fixes", "Docs", "Performance", "Refactor", "Tests", "Chores", "Misc">>

ConfiguredNames == {cls.cfg.categories[i].name : i \in 1..Len(cls.cfg.categories)}

\* C18: when no label names a category and the title's type, if any, is
\* not a name or alias of the configuration, the category is the first name
\* of the priority list that is configured, else the first configured
\* category, else Changes; and whenever a category is configured the
\* category returned is a configured one.
C18_FallbackIsDeterministicAndConfigured ==
  Categorized =>
    LET cats == cls.cfg.categories
        type == ExpectedType(cls.title)
        registered == \E i \in 1..Len(cats) : type \in NamesOf(cats[i])
        listed == {k \in 1..Len(PriorityNames) : PriorityNames[k] \in ConfiguredNames}
    IN  /\ (NamedByLabel = {} /\ (type = "" \/ ~registered)) =>
             cls.res.category = (IF listed # {} THEN PriorityNames[Least(listed)]
                                 ELSE IF Len(cats) > 0 THEN cats[1].name
                                 ELSE "Changes")
        /\ Len(cats) > 0 => cls.res.category \in ConfiguredNames

\* Security and Misc are configured, in this order; a change with an
\* unregistered type and a label that names nothing is classified as Misc
C18_Witness ==
  /\ Categorized /\ cls.title = "wip: try things" /\ cls.labels = <<"bug">>
  /\ Len(cls.cfg.categories) = 2 /\ cls.cfg.categories[1].name = "Security"
  /\ cls.res.category = "Misc"

\* C19 (as claimed): for a title with a type, the breaking flag is true
\* exactly when the title carries the bang, or a normalized label is one of
\* the configured breaking labels, or the title holds a breaking-change
\* phrase.
C19_BreakingIffBangLabelOrPhrase ==
  (Categorized /\ ExpectedType(cls.title) # "") =>
    LET breaks == {Folded(cls.cfg.breakingLabels[i]) : i \in 1..Len(cls.cfg.breakingLabels)}
        byLabel == \E i \in 1..Len(cls.labels) : ExpectedLabel(cls.labels[i]) \in breaks
    IN  cls.res.breaking
          <=> (ExpectedBang(cls.title) \/ byLabel \/ ExpectedPhrase(cls.title))

\* the bump each category name of the specification stands for when the
\* change is not breaking, as the claim words it: feature-like names minor,
\* fix, docs, refactor, test, chore and performance-like names patch
ClaimedBump(category) ==
  CASE category \in {"Features", "New", "Bug features"} -> "minor"
    [] category \in {"Fixes", " Fixes ", "Docs", "Documentation", "Performance",
                     "Perf tweaks", "Refactor", "Tests", "Chores", "Hotfixes"} -> "patch"
    [] OTHER -> "none"

\* C20 (as claimed): major when breaking; else minor or patch by the kind
\* of the category name; none for every other name.
C20_BumpAsClaimed ==
  cls.pc = "done" =>
    cls.bump = (IF cls.res.breaking THEN "major" ELSE ClaimedBump(cls.res.category))

\* C20 (amended): as claimed, with misc-like names among those that give
\* patch.
C20_BumpByBreakingThenCategory ==
  cls.pc = "done" =>
    cls.bump = (IF cls.res.breaking THEN "major"
                ELSE IF cls.res.category = "Misc" THEN "patch"
                ELSE ClaimedBump(cls.res.category))

\* scenario E: the label breaking on a fix classified as Fixes gives major
C20_Witness ==
  /\ cls.pc = "done" /\ cls.labels = <<"breaking">>
  /\ cls.title = "fix: clamp invalid question number"
  /\ cls.res.category = "Fixes" /\ cls.res.breaking
  /\ cls.bump = "major"

----------------------------------------------------------------------------
(* Claim about combineBumps, checked under SpecCombine *)

\* the severity of a bump: major > minor > patch > none
Severity(b) == CASE b = "major" -> 3 [] b = "minor" -> 2 [] b = "patch" -> 1 [] OTHER -> 0

\* C21: the result is none for the empty list and otherwise an element of
\* the list that no element exceeds in severity; so it is the same for all
\* lists with the same set of elements, whatever their order and number.
C21_CombineIsHighestSeverity ==
  cls.pc = "combined" =>
    LET elems == {cls.bumps[i] : i \in 1..Len(cls.bumps)}
    IN  /\ elems = {} => cls.combined = "none"
        /\ elems # {} => cls.combined \in elems
        /\ \A b \in elems : Severity(b) <= Severity(cls.combined)

\* patch, minor, patch: the result is minor, the second element, listed
\* between two lower ones of which one is repeated
C21_Witness ==
  /\ cls.pc = "combined" /\ cls.bumps = <<"patch", "minor", "patch">>
  /\ cls.combined = "minor"

----------------------------------------------------------------------------
(* Claim about the entry line, checked under SpecBullet *)

\* the length of the type(scope)!: prefix, with the white space after the
\* colon, of the titles of BulletTitles that have one
PrefixLen ==
  ("fix: clamp invalid question number" :> 5) @@ ("feat(api)!: add export" :> 12)
  @@ ("docs:typo" :> 5) @@ ("refactor!: drop v1 " :> 11)

\* the titles of BulletTitles that have white space around them, without it
Stripped ==
  (" Update readme " :> "Update readme") @@ ("refactor!: drop v1 " :> "refactor!: drop v1")

WithoutPrefix(title, t) ==
  IF title \in DOMAIN PrefixLen THEN SubSeq(t, PrefixLen[title] + 1, Len(t)) ELSE t

\* the line for a text
LineOf(text) ==
  "- " \o (IF cls.res.scope # "" THEN "[" \o cls.res.scope \o "] " ELSE "")
       \o text \o " (#" \o ToString(cls.prNumber) \o ")"

\* C22 as stated: the text is the title without its prefix, or the whole
\* title verbatim
C22_LineAsClaimed ==
  cls.pc = "formatted" => cls.line = LineOf(WithoutPrefix(cls.title, cls.title))

\* C22: the line is - [scope] text (#id), the bracketed scope and its space
\* present exactly when a scope is given; the text is the title, with the
\* white space around it removed, without its type(scope)!: prefix when it
\* has one and whole when it has none.
C22_LineFromTrimmedTitle ==
  cls.pc = "formatted" =>
    LET t == IF cls.title \in DOMAIN Stripped THEN Stripped[cls.title] ELSE cls.title
    IN  cls.line = LineOf(WithoutPrefix(cls.title, t))

\* a title without the prefix and with white space around it, formatted
\* with a scope
C22_Witness ==
  /\ cls.pc = "formatted" /\ cls.title = " Update readme " /\ cls.res.scope = "api"
  /\ cls.line = "- [api] Update readme (#128)"

----------------------------------------------------------------------------
(* Claim about a category's first entry, checked under Spec *)

\* the staging lines after an insert, without the blank lines that end them
Staged == DropTrailingBlank(StagingLines(content))

\* C23: when no category header of the staging section the editor is given
\* matches the category of an insert (names compared without case), the
\* staging section ends with a new block, "### C" and the entry line, after
\* all the lines it had; one blank line separates the block from them, and
\* the block follows the staging header directly when there were none; the
\* entry line is in the staging section only, above the section header that
\* ends it, and so in no version section.
C23_NewBlockAppendedToStaging ==
  (last.op = "add" /\ Block(StagingLines(Given), last.entry.category).at = 0) =>
    LET had == NonBlank(StagingLines(Given))
        n == Len(Staged)
    IN  /\ NonBlank(Staged) = had \o <<"### " \o last.entry.category, Bullet>>
        /\ Staged[n] = Bullet
        /\ Staged[n - 1] = "### " \o last.entry.category
        /\ IF had = <<>> THEN n = 2
           ELSE n >= 4 /\ IsBlank(Staged[n - 2]) /\ ~IsBlank(Staged[n - 3])
        /\ \A i \in 1..Len(Doc(content).lines) :
             Doc(content).lines[i] = Bullet =>
               Doc(content).at < i /\ i < Doc(content).end

\* Features was inserted as a new block below the Fixes block, above a
\* version section
C23_Witness ==
  /\ last.op = "add" /\ last.entry.category = "Features"
  /\ Len(Staged) = 5
  /\ SubSeq(Staged, 1, 3) = <<"### Fixes", "- clamp invalid question number (#55)", "">>
  /\ SubSeq(Staged, 4, 5) = <<"### Features", "- [api] add export (#56)">>
  /\ VersionHeaders(content) # {}

----------------------------------------------------------------------------
(* Claim about the bump given out by a run, checked under SpecRun *)

\* in this state: at most one value has been given out; one has only for a
\* merge whose write the store took, and it is suggestBump of the change's
\* classification; a finished run for a merge has given one, and giving it
\* is what a run whose write was taken can do next; a pull request closed
\* without merge has the run read and write nothing
BumpGivenForWrittenMerge ==
  /\ Len(cls.emitted) <= 1
  /\ cls.emitted # <<>> =>
       /\ cls.event = "merged"
       /\ inv[1].op = "add" /\ inv[1].wrote
       /\ cls.emitted = <<suggestBump(categorize(cls.title, cls.labels, cls.cfg))>>
  /\ (cls.event = "merged" /\ cls.pc = "done") => Len(cls.emitted) = 1
  /\ (cls.event = "merged" /\ inv[1].wrote /\ cls.emitted = <<>>) => ENABLED runEmit
  /\ (inv[1].pc = "failed" \/ cls.event # "merged") => cls.emitted = <<>>
  /\ cls.event = "closed" => inv[1] = Idle

\* C24: a run for a merge whose write succeeds gives out one bump value,
\* suggestBump of the classification, in a step after the write; a run
\* whose write fails, a run for a release and a run for a pull request
\* closed without merge give none, and the last one reads and writes nothing.
C24_OneBumpAfterSuccessfulWrite ==
  /\ []BumpGivenForWrittenMerge
  /\ [][cls'.emitted # cls.emitted => (inv[1].wrote /\ inv' = inv /\ content' = content)]_vars

\* the run for "feat(api)!: add export" has written its entry and given out
\* major
C24_Witness ==
  /\ cls.event = "merged" /\ cls.title = "feat(api)!: add export"
  /\ inv[1].wrote /\ inv[1].next = content
  /\ cls.emitted = <<"major">>

----------------------------------------------------------------------------
(* Claim about where entry lines are, checked under SpecMinimal *)

IsEntryLine(l) == Sub(l, 1, 2) = "- "
EntriesOf(ls) == SelectSeq(ls, IsEntryLine)

\* the entry lines of a document by section: those of the staging section,
\* those of each version section in document order, and all of them
Entries(t) ==
  LET vs == VersionSections(t)
  IN  [staging |-> EntriesOf(StagingLines(t)),
       versions |-> [k \in 1..Len(vs) |-> EntriesOf(vs[k].body)],
       all |-> EntriesOf(DocLines(t))]

\* no entry line occurs twice in the document, and every entry line is in
\* the staging section or in a version section
EachEntryOnce ==
  LET e == Entries(content)
      n == Len(e.all)
      inVersions == {<<k, i>> : k \in 1..Len(e.versions), i \in 1..3 * MaxOps}
  IN  /\ \A i, j \in 1..n : e.all[i] = e.all[j] => i = j
      /\ n = Len(e.staging)
               + Cardinality({x \in inVersions : x[2] <= Len(e.versions[x[1]])})

\* what one event does to the entries was of a document, giving now
EntriesMoveOnlyAtCutover(was, now, ev) ==
  LET b == formatBullet(ev.entry.title, ev.entry.prNumber, ev.entry.scope)
  IN  /\ ev.op = "add" =>
           /\ now.versions = was.versions
           /\ \A i \in 1..Len(was.all) : was.all[i] # b
           /\ Cardinality({i \in 1..Len(now.staging) : now.staging[i] = b}) = 1
           /\ SelectSeq(now.staging, LAMBDA l : l # b) = was.staging
      /\ (ev.op = "release" /\ ev.wrote) =>
           /\ was.staging # <<>>
           /\ now.staging = <<>>
           /\ now.versions = <<was.staging>> \o was.versions
      /\ (ev.op = "release" /\ ~ev.wrote) =>
           /\ was.staging = <<>>
           /\ now = was

----------------------------------------------------------------------------
(* Claim about a token under two categories, checked under SpecClassify *)

\* the categories, by their place in the configured order, that have the
\* token as name or alias
Registering(tok) ==
  {i \in 1..Len(cls.cfg.categories) : tok \in NamesOf(cls.cfg.categories[i])}

\* C26 (as claimed): when a token is the name or an alias of more than one
\* configured category, a change with the token as its only label and a
\* title without type, and a change without labels whose title has the
\* token as type, are both classified into the first of these categories
\* in configured order.
C26_BothPathsPickFirstRegistered ==
  Categorized =>
    LET byLabel == Len(cls.labels) = 1 /\ ExpectedType(cls.title) = ""
        byType == cls.labels = <<>> /\ ExpectedType(cls.title) # ""
        tok == IF byLabel THEN cls.labels[1] ELSE ExpectedType(cls.title)
    IN  ((byLabel \/ byType) /\ Cardinality(Registering(tok)) > 1) =>
          cls.res.category = cls.cfg.categories[Least(Registering(tok))].name

====
